---- MODULE Spec2Model ----
(***************************************************************************)
(* Model of the mesher package (src/mesher/mesher.go): a rendezvous server *)
(* and peers over UDP.  Every goroutine of the package is a process of the *)
(* model; every unbuffered channel operation is a rendezvous step between  *)
(* the sending and the receiving goroutine.                                *)
(***************************************************************************)
EXTENDS Integers, Sequences, FiniteSets, Bags, TLC

(***************************************************************************)
(* Bounds of the model.                                                    *)
(***************************************************************************)
\* datagrams the clients send to the server (SpecServer)
MaxInject == 4
\* datagrams the environment sends to the peer (SpecPeer)
MaxPeerInject == 3
\* ticks of the peer's ticker (SpecPeer)
MaxPeerTick == 1
\* ticks of each peer's ticker (SpecMesh)
MaxTick == 2
\* payloads the application broadcasts
MaxBcast == 1
\* watchdog timers that elapse (SpecMesh)
MaxFire == 1
\* length of an injected PeerList
MaxLen == 2

(***************************************************************************)
(* Endpoints, address keys (src/mesher/mesher.go:28-48).                   *)
(***************************************************************************)
\* the nil value of a pointer, an interface or an error-free result
Nil == [type |-> "nil"]

Server == "S"
Nodes == {"S", "P1", "P2"}
Hosts == Nodes \cup {"P3"}
Payloads == {"d1", "d2"}

PortOf(h) == CASE h = "S" -> 9000 [] h = "P1" -> 9001 [] h = "P2" -> 9002 [] OTHER -> 258

\* a *net.UDPAddr as ReadFromUDP reports it for host h: a 4-byte IP and a port
UDPAddr(h) == [IP |-> <<4, h>>, Port |-> PortOf(h)]

\* netip.Addr.As16: the 16-byte (IPv4-in-IPv6) form of an IP
As16(ip) == <<16, ip[2]>>

\* addrKey: 16 bytes of IP, then the port big-endian in two bytes
addrKey(addr) == <<As16(addr.IP)[2], addr.Port \div 256, addr.Port % 256>>

\* addrFromKey: the endpoint with the 16-byte IP and the port read back big-endian
addrFromKey(a) == [IP |-> <<16, a[1]>>, Port |-> a[2] * 256 + a[3]]

Keys == {addrKey(UDPAddr(h)) : h \in Hosts}

\* the host whose socket a datagram addressed to addr reaches
NodeAt(addr) ==
    IF \E h \in Hosts : addrKey(UDPAddr(h)) = addrKey(addr)
    THEN CHOOSE h \in Hosts : addrKey(UDPAddr(h)) = addrKey(addr)
    ELSE "nowhere"

(***************************************************************************)
(* Protocol messages and the gob codec.                                    *)
(***************************************************************************)
getPeerList == [type |-> "getPeerList"]
peerList(as) == [type |-> "peerList", Addresses |-> as]
keepAlive == [type |-> "keepAlive"]
isAlive == [type |-> "isAlive"]
dataRelayTo(to, d) == [type |-> "dataRelayTo", To |-> to, Data |-> d]
dataRelayedFrom(from, d) == [type |-> "dataRelayedFrom", From |-> from, Data |-> d]
dataDirect(d) == [type |-> "dataDirect", Data |-> d]

\* the concrete types that implement serverRequest / peerRequest
serverRequest == {"getPeerList", "dataRelayTo"}
peerRequest == {"peerList", "keepAlive", "isAlive", "dataRelayedFrom", "dataDirect"}
Registered == serverRequest \cup peerRequest

\* enc.Encode(&m.m): the registered type name, then the exported fields in order
Encode(m) ==
    CASE m.type = "peerList" -> <<m.type, m.Addresses>>
      [] m.type = "dataRelayTo" -> <<m.type, m.To, m.Data>>
      [] m.type = "dataRelayedFrom" -> <<m.type, m.From, m.Data>>
      [] m.type = "dataDirect" -> <<m.type, m.Data>>
      [] OTHER -> <<m.type>>

\* bytes that are no gob stream
Garbage == <<"garbage">>

\* the gob stream of a nil interface value: an empty concrete type name
NilStream == <<"">>

\* the nil interface value
NilInterface == [type |-> "nilInterface"]

\* dec.Decode(&m) into an interface value: an empty type name sets m to nil
\* without an error; otherwise it fails unless the named type is registered
\* and assignable to the interface
Decode(iface, buf) ==
    IF buf = NilStream THEN NilInterface
    ELSE IF buf[1] \notin Registered \/ buf[1] \notin iface THEN Nil
    ELSE CASE buf[1] = "peerList" -> peerList(buf[2])
           [] buf[1] = "dataRelayTo" -> dataRelayTo(buf[2], buf[3])
           [] buf[1] = "dataRelayedFrom" -> dataRelayedFrom(buf[2], buf[3])
           [] buf[1] = "dataDirect" -> dataDirect(buf[2])
           [] OTHER -> [type |-> buf[1]]

\* a datagram on the wire
Datagram(from, to, m) == [from |-> from, to |-> to, buf |-> Encode(m)]

(***************************************************************************)
(* State.                                                                  *)
(***************************************************************************)
VARIABLES
    net,          \* bag of datagrams in flight
    out,          \* per node: the responses the core has yet to send in the
                  \* handler it is in
    wbuf,         \* per node: the response the writer has taken and not yet
                  \* written
    requests,     \* per node: the reader's channel, "open" or "closed"
    conn,         \* per node: how many times conn.Close() ran
    pc,           \* per node: where the core goroutine stands; "panic" when the
                  \* process has died
    cur,          \* per node: the request (or PeerMsg, or timed-out address) the
                  \* core is handling
    cRequests,    \* per node: the core's local requests != nil
    cTimeout,     \* per node: the core's local timeout != nil
    cBroadcast,   \* per node: the core's local broadcast != nil
    broadcast,    \* per node: the application's broadcast channel
    sPeers,       \* server.peers
    peerIds,      \* per node: peer.peerIds
    nextPeerId,   \* per node: peer.nextPeerId
    alivePeers,   \* per node: peer.alivePeers
    seen,         \* per node: the seen / seenPeerAlive channel
    wpc,          \* per node: where the watcher goroutine stands
    wSeen,        \* per node: the watcher's local seen != nil
    wArg,         \* per node: the address the watcher has received, or the feed
                  \* channel / address it is sending
    wPeers,       \* per node: the watcher's map address -> feed channel
    dogs,         \* per node: the watchdog goroutines, by feed channel
    timeout,      \* per node: the watcher's outward timeout channel
    timeoutInner, \* per node: the watcher's inner timeout channel
    responses,    \* per node: the core's outbound channel
    data,         \* per node: the peer's application inbound channel
    wrpc,         \* per node: where the writer goroutine stands
    fpc,          \* per node: where the facade goroutine stands
    delivered,    \* per node: the PeerMsgs the application has received
    nInject,      \* datagrams handed in by the environment so far
    nTick,        \* per node: ticks taken
    nBcast,       \* per node: broadcasts taken
    nFire,        \* watchdog timers elapsed
    bcasts,       \* per node: for each broadcast that sent something, the payload
                  \* and the state it met
    everIds,      \* per node: every id peerIds has held
    live          \* keys that sent a decodable request to the server and have
                  \* not had a timeout processed since

netVars == <<net, out, wbuf>>
coreVars == <<pc, cur, cRequests, cTimeout, cBroadcast>>
serverVars == <<sPeers, live>>
peerVars == <<peerIds, nextPeerId, alivePeers, everIds>>
watcherVars == <<wpc, wSeen, wArg, wPeers, dogs>>
chanVars == <<seen, timeout, timeoutInner, responses, data>>
ioVars == <<requests, conn, wrpc, fpc, broadcast, delivered>>
envVars == <<nInject, nTick, nBcast, nFire>>
histVars == <<bcasts>>

vars == <<netVars, coreVars, serverVars, peerVars, watcherVars, chanVars,
          ioVars, envVars, histVars>>

EmptyMap == [x \in {} |-> Nil]

Init ==
    /\ net = EmptyBag
    /\ out = [n \in Nodes |-> <<>>]
    /\ wbuf = [n \in Nodes |-> Nil]
    /\ requests = [n \in Nodes |-> "open"]
    /\ conn = [n \in Nodes |-> 0]
    /\ pc = [n \in Nodes |-> "select"]
    /\ cur = [n \in Nodes |-> Nil]
    /\ cRequests = [n \in Nodes |-> TRUE]
    /\ cTimeout = [n \in Nodes |-> TRUE]
    /\ cBroadcast = [n \in Nodes |-> TRUE]
    /\ broadcast = [n \in Nodes |-> "open"]
    /\ sPeers = {}
    /\ live = {}
    /\ peerIds = [n \in Nodes |-> EmptyMap]
    /\ nextPeerId = [n \in Nodes |-> 0]
    /\ alivePeers = [n \in Nodes |-> {}]
    /\ everIds = [n \in Nodes |-> {}]
    /\ seen = [n \in Nodes |-> "open"]
    /\ wpc = [n \in Nodes |-> "select"]
    /\ wSeen = [n \in Nodes |-> TRUE]
    /\ wArg = [n \in Nodes |-> Nil]
    /\ wPeers = [n \in Nodes |-> EmptyMap]
    /\ dogs = [n \in Nodes |-> EmptyMap]
    /\ timeout = [n \in Nodes |-> "open"]
    /\ timeoutInner = [n \in Nodes |-> "open"]
    /\ responses = [n \in Nodes |-> "open"]
    /\ data = [n \in Nodes |-> "open"]
    /\ wrpc = [n \in Nodes |-> "run"]
    /\ fpc = [n \in Nodes |-> "wait"]
    /\ delivered = [n \in Nodes |-> <<>>]
    /\ nInject = 0
    /\ nTick = [n \in Nodes |-> 0]
    /\ nBcast = [n \in Nodes |-> 0]
    /\ nFire = 0
    /\ bcasts = [n \in Nodes |-> <<>>]

\* the process of node n is alive: no goroutine of it has panicked
Running(n) == pc[n] # "panic"

(***************************************************************************)
(* Helpers on maps and bags.                                               *)
(***************************************************************************)
MapDelete(f, k) == [x \in DOMAIN f \ {k} |-> f[x]]
MapPut(f, k, v) == [x \in DOMAIN f \cup {k} |-> IF x = k THEN v ELSE f[x]]

\* the orders in which a range over a map with key set S may visit it
Orders(S) == {s \in [1..Cardinality(S) -> S] : \A i, j \in DOMAIN s : i # j => s[i] # s[j]}

RECURSIVE SeqToBag(_)
SeqToBag(s) == IF s = <<>> THEN EmptyBag ELSE SetToBag({Head(s)}) (+) SeqToBag(Tail(s))

(***************************************************************************)
(* writer (src/mesher/mesher.go:83-103): one datagram per response, a      *)
(* response with a nil target is skipped.                                  *)
(***************************************************************************)
response(to, m) == [to |-> to, m |-> m]

\* the datagrams the writer of node n puts on the wire for the responses rs
Written(n, rs) ==
    SeqToBag([i \in 1..Len(SelectSeq(rs, LAMBDA r : r.to # Nil)) |->
                LET r == SelectSeq(rs, LAMBDA x : x.to # Nil)[i]
                IN Datagram(UDPAddr(n), r.to, r.m)])

(***************************************************************************)
(* watchdog (src/mesher/mesher.go:50-64).                                  *)
(***************************************************************************)
\* the channel of a newly made watchdog
NewChan(n) == CHOOSE c \in 1..(Cardinality(DOMAIN dogs[n]) + 1) : c \notin DOMAIN dogs[n]

\* watchdog(addr, timeoutInner): a goroutine waiting on its channel and its timer
watchdog(addr) == [addr |-> addr, st |-> "timing"]

\* case <-time.After(5 * time.Second): the timer elapses; the watchdog goes on
\* to send its address on the inner timeout channel
DogTimer(n) ==
    /\ Running(n)
    /\ \E c \in DOMAIN dogs[n] :
        /\ dogs[n][c].st = "timing"
        /\ dogs' = [dogs EXCEPT ![n][c].st = "fired"]
    /\ UNCHANGED <<netVars, coreVars, serverVars, peerVars, wpc, wSeen, wArg,
                   wPeers, chanVars, ioVars, nInject, nTick, nBcast, histVars>>

\* a timer elapses
DogFire(n) == DogTimer(n) /\ UNCHANGED nFire

\* a timer elapses, of the MaxFire that do
DogFireBounded(n) ==
    /\ nFire < MaxFire
    /\ nFire' = nFire + 1
    /\ DogTimer(n)

(***************************************************************************)
(* watcher (src/mesher/mesher.go:105-135).                                 *)
(***************************************************************************)
\* for seen != nil, without the test of len(peers)
WatcherLoop_SeenOnly(n) == wSeen[n]

\* for seen != nil || len(peers) > 0
WatcherLoop(n) == wSeen[n] \/ DOMAIN wPeers[n] # {}

\* case m, ok := <-seen with ok: the watcher's side of the core's send of m;
\* the watcher holds m and the core goes on
WatcherSeen(n, m) ==
    /\ wpc[n] = "select"
    /\ WatcherLoop(n)
    /\ wSeen[n]
    /\ seen[n] = "open"
    /\ wArg' = [wArg EXCEPT ![n] = [addr |-> m]]
    /\ wpc' = [wpc EXCEPT ![n] = "got"]
    /\ UNCHANGED <<wSeen, wPeers, dogs>>

\* feed, ok := peers[addrKey(m)]; if !ok, spawn a watchdog and record it; the
\* watcher goes on to its send on feed
WatcherTrack(n) ==
    /\ Running(n)
    /\ wpc[n] = "got"
    /\ LET m == wArg[n].addr IN
       IF addrKey(m) \in DOMAIN wPeers[n]
       THEN /\ wArg' = [wArg EXCEPT ![n] = [ch |-> wPeers[n][addrKey(m)]]]
            /\ UNCHANGED <<wPeers, dogs>>
       ELSE /\ dogs' = [dogs EXCEPT ![n] = MapPut(@, NewChan(n), watchdog(m))]
            /\ wPeers' = [wPeers EXCEPT ![n] = MapPut(@, addrKey(m), NewChan(n))]
            /\ wArg' = [wArg EXCEPT ![n] = [ch |-> NewChan(n)]]
    /\ wpc' = [wpc EXCEPT ![n] = "feed"]
    /\ UNCHANGED <<netVars, coreVars, serverVars, peerVars, wSeen, chanVars, ioVars,
                   envVars, histVars>>

\* case m, ok := <-seen with !ok: seen = nil
WatcherSeenClosed(n) ==
    /\ Running(n)
    /\ wpc[n] = "select"
    /\ WatcherLoop(n)
    /\ wSeen[n]
    /\ seen[n] = "closed"
    /\ wSeen' = [wSeen EXCEPT ![n] = FALSE]
    /\ UNCHANGED <<netVars, coreVars, serverVars, peerVars, wpc, wArg, wPeers, dogs,
                   chanVars, ioVars, envVars, histVars>>

\* feed <- struct{}{}: taken by the watchdog of that channel while it is timing
WatcherFeed(n) ==
    /\ Running(n)
    /\ wpc[n] = "feed"
    /\ wArg[n].ch \in DOMAIN dogs[n]
    /\ dogs[n][wArg[n].ch].st = "timing"
    /\ wpc' = [wpc EXCEPT ![n] = "select"]
    /\ wArg' = [wArg EXCEPT ![n] = Nil]
    /\ UNCHANGED <<netVars, coreVars, serverVars, peerVars, wSeen, wPeers, dogs,
                   chanVars, ioVars, envVars, histVars>>

\* case a := <-timeoutInner: a fired watchdog hands over its address and returns;
\* the watcher deletes the entry and goes on to send a on the outward channel
WatcherTimeoutInner(n) ==
    /\ Running(n)
    /\ wpc[n] = "select"
    /\ WatcherLoop(n)
    /\ \E c \in DOMAIN dogs[n] :
        /\ dogs[n][c].st = "fired"
        /\ dogs' = [dogs EXCEPT ![n] = MapDelete(@, c)]
        /\ wPeers' = [wPeers EXCEPT ![n] = MapDelete(@, addrKey(dogs[n][c].addr))]
        /\ wArg' = [wArg EXCEPT ![n] = [addr |-> dogs[n][c].addr]]
    /\ wpc' = [wpc EXCEPT ![n] = "timeout"]
    /\ UNCHANGED <<netVars, coreVars, serverVars, peerVars, wSeen, chanVars, ioVars,
                   envVars, histVars>>

\* timeout <- a: the watcher's side of the core's receive
WatcherTimeoutOut(n) ==
    /\ wpc[n] = "timeout"
    /\ wpc' = [wpc EXCEPT ![n] = "select"]
    /\ wArg' = [wArg EXCEPT ![n] = Nil]
    /\ UNCHANGED <<wSeen, wPeers, dogs>>

\* the loop ends: close(timeoutInner); close(timeout)
WatcherExit(n) ==
    /\ Running(n)
    /\ wpc[n] = "select"
    /\ ~WatcherLoop(n)
    /\ wpc' = [wpc EXCEPT ![n] = "done"]
    /\ timeoutInner' = [timeoutInner EXCEPT ![n] = "closed"]
    /\ timeout' = [timeout EXCEPT ![n] = "closed"]
    /\ UNCHANGED <<netVars, coreVars, serverVars, peerVars, wSeen, wArg, wPeers, dogs,
                   seen, responses, data, ioVars, envVars, histVars>>

(***************************************************************************)
(* reader, writer and facade (src/mesher/mesher.go:66-103, 408-420,        *)
(* 450-458).                                                               *)
(***************************************************************************)
\* reader: ReadFromUDP fails, the reader closes its requests channel
ReaderFail(n) ==
    /\ Running(n)
    /\ requests[n] = "open"
    /\ requests' = [requests EXCEPT ![n] = "closed"]
    /\ UNCHANGED <<netVars, coreVars, serverVars, peerVars, watcherVars, chanVars,
                   conn, wrpc, fpc, broadcast, delivered, envVars, histVars>>

\* writer: for m := range out takes the response the core is sending; the core
\* goes on to its next send, or back to its select after the last
WriterTake(n) ==
    /\ pc[n] = "reply"
    /\ wrpc[n] = "run"
    /\ wbuf[n] = Nil
    /\ wbuf' = [wbuf EXCEPT ![n] = Head(out[n])]
    /\ out' = [out EXCEPT ![n] = Tail(@)]
    /\ pc' = [pc EXCEPT ![n] = IF Tail(out[n]) = <<>> THEN "select" ELSE "reply"]
    /\ UNCHANGED <<net, cur, cRequests, cTimeout, cBroadcast, serverVars, peerVars,
                   watcherVars, chanVars, ioVars, envVars, histVars>>

\* writer: conn.WriteToUDP(b.Bytes(), m.to) for the response it has taken
WriterWrite(n) ==
    /\ Running(n)
    /\ wrpc[n] = "run"
    /\ wbuf[n] # Nil
    /\ net' = net (+) Written(n, <<wbuf[n]>>)
    /\ wbuf' = [wbuf EXCEPT ![n] = Nil]
    /\ UNCHANGED <<out, coreVars, serverVars, peerVars, watcherVars, chanVars, ioVars,
                   envVars, histVars>>

\* writer: the range over out ends; done <- struct{}{} is taken by the facade's
\* <-innerDone
WriterExit(n) ==
    /\ Running(n)
    /\ wrpc[n] = "run"
    /\ wbuf[n] = Nil
    /\ responses[n] = "closed"
    /\ fpc[n] = "wait"
    /\ wrpc' = [wrpc EXCEPT ![n] = "done"]
    /\ fpc' = [fpc EXCEPT ![n] = "close"]
    /\ UNCHANGED <<netVars, coreVars, serverVars, peerVars, watcherVars, chanVars,
                   requests, conn, broadcast, delivered, envVars, histVars>>

\* facade: conn.Close()
FacadeClose(n) ==
    /\ Running(n)
    /\ fpc[n] = "close"
    /\ conn' = [conn EXCEPT ![n] = @ + 1]
    /\ fpc' = [fpc EXCEPT ![n] = "signal"]
    /\ UNCHANGED <<netVars, coreVars, serverVars, peerVars, watcherVars, chanVars,
                   requests, wrpc, broadcast, delivered, envVars, histVars>>

\* facade: done <- struct{}{}, taken by the application
FacadeDone(n) ==
    /\ Running(n)
    /\ fpc[n] = "signal"
    /\ fpc' = [fpc EXCEPT ![n] = "end"]
    /\ UNCHANGED <<netVars, coreVars, serverVars, peerVars, watcherVars, chanVars,
                   requests, conn, wrpc, broadcast, delivered, envVars, histVars>>

(***************************************************************************)
(* Core loops: what meshServer and meshPeer share                          *)
(* (src/mesher/mesher.go:190-219, 315-376).                                *)
(***************************************************************************)
\* for timeout != nil || requests != nil
CoreLoop(n) == cTimeout[n] \/ cRequests[n]

\* the core stands in its select
CoreSelect(n) == pc[n] = "select" /\ CoreLoop(n)

\* case a, ok := <-timeout with !ok: timeout = nil
CoreTimeoutClosed(n) ==
    /\ CoreSelect(n)
    /\ cTimeout[n]
    /\ timeout[n] = "closed"
    /\ cTimeout' = [cTimeout EXCEPT ![n] = FALSE]
    /\ UNCHANGED <<netVars, pc, cur, cRequests, cBroadcast, serverVars, peerVars,
                   watcherVars, chanVars, ioVars, envVars, histVars>>

\* case request, ok := <-requests with !ok, without requests = nil
CoreRequestsClosed_KeepsReading(n) ==
    /\ CoreSelect(n)
    /\ cRequests[n]
    /\ requests[n] = "closed"
    /\ seen' = [seen EXCEPT ![n] = "closed"]
    /\ UNCHANGED <<netVars, coreVars, serverVars, peerVars, watcherVars, timeout,
                   timeoutInner, responses, data, ioVars, envVars, histVars>>

\* case request, ok := <-requests with !ok: requests = nil; close(seen)
CoreRequestsClosed(n) ==
    /\ CoreSelect(n)
    /\ cRequests[n]
    /\ requests[n] = "closed"
    /\ cRequests' = [cRequests EXCEPT ![n] = FALSE]
    /\ seen' = [seen EXCEPT ![n] = "closed"]
    /\ UNCHANGED <<netVars, pc, cur, cTimeout, cBroadcast, serverVars, peerVars,
                   watcherVars, timeout, timeoutInner, responses, data, ioVars, envVars,
                   histVars>>

\* the loop ends: close(responses), and close(data) first on a peer
CoreExit(n) ==
    /\ pc[n] = "select"
    /\ ~CoreLoop(n)
    /\ pc' = [pc EXCEPT ![n] = "done"]
    /\ responses' = [responses EXCEPT ![n] = "closed"]
    /\ data' = [data EXCEPT ![n] = IF n = Server THEN @ ELSE "closed"]
    /\ UNCHANGED <<netVars, cur, cRequests, cTimeout, cBroadcast, serverVars, peerVars,
                   watcherVars, seen, timeout, timeoutInner, ioVars, envVars, histVars>>

(***************************************************************************)
(* Server (src/mesher/mesher.go:141-222).                                  *)
(***************************************************************************)
\* getPeerList.updateServer without the k != a test of its loop
getPeerList_updateServer_IncludesSender(from) ==
    LET a == addrKey(from) IN
    /\ sPeers' = sPeers \cup {a}
    /\ \E as \in Orders(sPeers \cup {a}) :
         out' = [out EXCEPT ![Server] = <<response(from, peerList(as))>>]

\* getPeerList.updateServer
getPeerList_updateServer(from) ==
    LET a == addrKey(from) IN
    /\ sPeers' = sPeers \cup {a}
    /\ \E as \in Orders((sPeers \cup {a}) \ {a}) :
         out' = [out EXCEPT ![Server] = <<response(from, peerList(as))>>]

\* dataRelayTo.updateServer naming the target, not the sender, as From
dataRelayTo_updateServer_WrongFrom(m, from) ==
    /\ UNCHANGED sPeers
    /\ IF m.To \in sPeers
       THEN out' = [out EXCEPT ![Server] =
                      <<response(addrFromKey(m.To), dataRelayedFrom(m.To, m.Data))>>]
       ELSE UNCHANGED out

\* dataRelayTo.updateServer without the membership test
dataRelayTo_updateServer_NoMemberCheck(m, from) ==
    /\ UNCHANGED sPeers
    /\ out' = [out EXCEPT ![Server] =
                 <<response(addrFromKey(m.To), dataRelayedFrom(addrKey(from), m.Data))>>]

\* dataRelayTo.updateServer
dataRelayTo_updateServer(m, from) ==
    /\ UNCHANGED sPeers
    /\ IF m.To \in sPeers
       THEN out' = [out EXCEPT ![Server] =
                      <<response(addrFromKey(m.To), dataRelayedFrom(addrKey(from), m.Data))>>]
       ELSE UNCHANGED out

\* m.updateServer(&s, request.from, responses) up to its send on replies; the
\* call on a nil interface value panics
updateServer(m, from) ==
    IF m = NilInterface
    THEN /\ pc' = [pc EXCEPT ![Server] = "panic"]
         /\ UNCHANGED <<sPeers, out>>
    ELSE /\ IF m.type = "getPeerList" THEN getPeerList_updateServer(from)
            ELSE dataRelayTo_updateServer(m, from)
         /\ pc' = [pc EXCEPT ![Server] =
                     IF out'[Server] = <<>> THEN "select" ELSE "reply"]

\* case request, ok := <-requests with ok, for the datagram dg; rest is what
\* stays on the wire.  Decode; on an error continue; else go on to seen <- from
ServerRequest(dg, rest) ==
    /\ CoreSelect(Server)
    /\ cRequests[Server]
    /\ requests[Server] = "open"
    /\ net' = rest
    /\ UNCHANGED <<out, wbuf>>
    /\ IF Decode(serverRequest, dg.buf) = Nil
       THEN UNCHANGED <<pc, cur>>
       ELSE /\ pc' = [pc EXCEPT ![Server] = "seen"]
            /\ cur' = [cur EXCEPT ![Server] =
                         [from |-> dg.from, m |-> Decode(serverRequest, dg.buf)]]
    /\ UNCHANGED <<cRequests, cTimeout, cBroadcast, serverVars, peerVars,
                   watcherVars, chanVars, ioVars, nTick, nBcast, nFire, histVars>>

\* a datagram on the wire reaches the server's reader and core
ServerRecv ==
    /\ \E dg \in BagToSet(net) :
         /\ NodeAt(dg.to) = Server
         /\ ServerRequest(dg, net (-) SetToBag({dg}))
    /\ UNCHANGED nInject

\* seen <- request.from is taken by the watcher; the core goes on to its call
\* of m.updateServer
ServerSeen ==
    /\ pc[Server] = "seen"
    /\ WatcherSeen(Server, cur[Server].from)
    /\ pc' = [pc EXCEPT ![Server] = "update"]
    /\ live' = live \cup {addrKey(cur[Server].from)}
    /\ UNCHANGED <<netVars, cur, sPeers, cRequests, cTimeout, cBroadcast, peerVars,
                   chanVars, ioVars, envVars, histVars>>

\* m.updateServer(&s, request.from, responses), up to its send on replies
ServerUpdate ==
    /\ pc[Server] = "update"
    /\ updateServer(cur[Server].m, cur[Server].from)
    /\ cur' = [cur EXCEPT ![Server] = Nil]
    /\ UNCHANGED <<net, wbuf, live, cRequests, cTimeout, cBroadcast, peerVars,
                   watcherVars, chanVars, ioVars, envVars, histVars>>

\* case a, ok := <-timeout with ok: the core takes a from the watcher's send
ServerTimeout ==
    /\ CoreSelect(Server)
    /\ cTimeout[Server]
    /\ WatcherTimeoutOut(Server)
    /\ pc' = [pc EXCEPT ![Server] = "timedout"]
    /\ cur' = [cur EXCEPT ![Server] = [a |-> wArg[Server].addr]]
    /\ UNCHANGED <<netVars, cRequests, cTimeout, cBroadcast, serverVars, peerVars,
                   chanVars, ioVars, envVars, histVars>>

\* the timeout case without the delete
ServerDelete_NoDelete ==
    /\ pc[Server] = "timedout"
    /\ pc' = [pc EXCEPT ![Server] = "select"]
    /\ cur' = [cur EXCEPT ![Server] = Nil]
    /\ UNCHANGED <<sPeers, live>>
    /\ UNCHANGED <<netVars, cRequests, cTimeout, cBroadcast, peerVars, watcherVars,
                   chanVars, ioVars, envVars, histVars>>

\* delete(s.peers, addrKey(a))
ServerDelete ==
    /\ pc[Server] = "timedout"
    /\ sPeers' = sPeers \ {addrKey(cur[Server].a)}
    /\ live' = live \ {addrKey(cur[Server].a)}
    /\ pc' = [pc EXCEPT ![Server] = "select"]
    /\ cur' = [cur EXCEPT ![Server] = Nil]
    /\ UNCHANGED <<netVars, cRequests, cTimeout, cBroadcast, peerVars, watcherVars,
                   chanVars, ioVars, envVars, histVars>>

(***************************************************************************)
(* The server with its clients as environment.                             *)
(***************************************************************************)
Clients == {"P1", "P2"}

\* what a client may send to the server
ServerInputs ==
    {Datagram(UDPAddr(h), UDPAddr(Server), m) :
        h \in Clients,
        m \in {getPeerList, keepAlive}
              \cup {dataRelayTo(addrKey(UDPAddr(t)), d) : t \in Clients, d \in Payloads}}
    \cup {[from |-> UDPAddr(h), to |-> UDPAddr(Server), buf |-> b] :
            h \in Clients, b \in {Garbage, NilStream}}

\* a client's datagram reaches the server's reader and core
ServerInject ==
    /\ nInject < MaxInject
    /\ \E dg \in ServerInputs : ServerRequest(dg, net)
    /\ nInject' = nInject + 1

ServerStep ==
    \/ ServerSeen
    \/ ServerUpdate
    \/ ServerTimeout
    \/ ServerDelete
    \/ WatcherTrack(Server)
    \/ CoreRequestsClosed(Server)
    \/ CoreTimeoutClosed(Server)
    \/ CoreExit(Server)
    \/ DogFire(Server)
    \/ WatcherSeenClosed(Server)
    \/ WatcherFeed(Server)
    \/ WatcherTimeoutInner(Server)
    \/ WatcherExit(Server)
    \/ WriterTake(Server)
    \/ WriterWrite(Server)
    \/ WriterExit(Server)
    \/ FacadeClose(Server)
    \/ FacadeDone(Server)

NextServer ==
    \/ ServerInject
    \/ ReaderFail(Server)
    \/ ServerStep

SpecServer == Init /\ [][NextServer]_vars

\* the scheduler runs every goroutine of the server that can take a step, every
\* timer elapses, and the application takes the completion signal
FairSpecServer == SpecServer /\ WF_vars(ServerStep)

(***************************************************************************)
(* Peer (src/mesher/mesher.go:228-379).                                    *)
(***************************************************************************)
serverAddressUdp == UDPAddr(Server)

\* the PeerMsg a peer hands to its application
PeerMsg(id, buf) == [PeerId |-> id, Buf |-> buf]

\* the loop of peerList.updatePeer without p.nextPeerId += 1
RECURSIVE peerList_loop_NoIncrement(_, _, _, _)
peerList_loop_NoIncrement(as, old, known, next) ==
    IF as = <<>> THEN [peerIds |-> known, nextPeerId |-> next]
    ELSE IF Head(as) \in DOMAIN old
         THEN peerList_loop_NoIncrement(Tail(as), old,
                                        MapPut(known, Head(as), old[Head(as)]), next)
         ELSE peerList_loop_NoIncrement(Tail(as), old, MapPut(known, Head(as), next), next)

\* peerList.updatePeer, the loop over m.Addresses: old is p.peerIds, known is
\* knownPeerIds so far, next is p.nextPeerId
RECURSIVE peerList_loop(_, _, _, _)
peerList_loop(as, old, known, next) ==
    IF as = <<>> THEN [peerIds |-> known, nextPeerId |-> next]
    ELSE IF Head(as) \in DOMAIN old
         THEN peerList_loop(Tail(as), old, MapPut(known, Head(as), old[Head(as)]), next)
         ELSE peerList_loop(Tail(as), old, MapPut(known, Head(as), next), next + 1)

\* peerList.updatePeer
peerList_updatePeer(n, m, wire) ==
    LET r == peerList_loop(m.Addresses, peerIds[n], EmptyMap, nextPeerId[n]) IN
    /\ peerIds' = [peerIds EXCEPT ![n] = r.peerIds]
    /\ nextPeerId' = [nextPeerId EXCEPT ![n] = r.nextPeerId]
    /\ everIds' = [everIds EXCEPT ![n] = @ \cup {r.peerIds[a] : a \in DOMAIN r.peerIds}]
    /\ net' = wire
    /\ UNCHANGED <<alivePeers, pc, cur, out>>

\* keepAlive.updatePeer up to its send on replies
keepAlive_updatePeer(n, from, wire) ==
    /\ net' = wire
    /\ out' = [out EXCEPT ![n] = <<response(from, isAlive)>>]
    /\ pc' = [pc EXCEPT ![n] = "reply"]
    /\ UNCHANGED <<peerVars, cur>>

\* isAlive.updatePeer up to its send on seenPeerAlive
isAlive_updatePeer(n, from, wire) ==
    /\ alivePeers' = [alivePeers EXCEPT ![n] = @ \cup {addrKey(from)}]
    /\ pc' = [pc EXCEPT ![n] = "seen"]
    /\ cur' = [cur EXCEPT ![n] = [from |-> from]]
    /\ net' = wire
    /\ UNCHANGED <<peerIds, nextPeerId, everIds, out>>

\* dataRelayedFrom.updatePeer up to its send on data
dataRelayedFrom_updatePeer(n, m, wire) ==
    /\ IF m.From \in DOMAIN peerIds[n]
       THEN /\ pc' = [pc EXCEPT ![n] = "data"]
            /\ cur' = [cur EXCEPT ![n] = PeerMsg(peerIds[n][m.From], m.Data)]
       ELSE UNCHANGED <<pc, cur>>
    /\ net' = wire
    /\ UNCHANGED <<peerVars, out>>

\* dataDirect.updatePeer without the ok test: an unknown sender gets id 0
dataDirect_updatePeer_NoOkCheck(n, m, from, wire) ==
    /\ pc' = [pc EXCEPT ![n] = "data"]
    /\ cur' = [cur EXCEPT ![n] =
                 PeerMsg(IF addrKey(from) \in DOMAIN peerIds[n]
                         THEN peerIds[n][addrKey(from)] ELSE 0, m.Data)]
    /\ net' = wire
    /\ UNCHANGED <<peerVars, out>>

\* dataDirect.updatePeer delivering under the id after the sender's
dataDirect_updatePeer_NextId(n, m, from, wire) ==
    /\ IF addrKey(from) \in DOMAIN peerIds[n]
       THEN /\ pc' = [pc EXCEPT ![n] = "data"]
            /\ cur' = [cur EXCEPT ![n] = PeerMsg(peerIds[n][addrKey(from)] + 1, m.Data)]
       ELSE UNCHANGED <<pc, cur>>
    /\ net' = wire
    /\ UNCHANGED <<peerVars, out>>

\* dataDirect.updatePeer up to its send on data
dataDirect_updatePeer(n, m, from, wire) ==
    /\ IF addrKey(from) \in DOMAIN peerIds[n]
       THEN /\ pc' = [pc EXCEPT ![n] = "data"]
            /\ cur' = [cur EXCEPT ![n] = PeerMsg(peerIds[n][addrKey(from)], m.Data)]
       ELSE UNCHANGED <<pc, cur>>
    /\ net' = wire
    /\ UNCHANGED <<peerVars, out>>

\* m.updatePeer(&p, request.from, responses, data); the call on a nil
\* interface value panics
updatePeer(n, m, from, wire) ==
    CASE m = NilInterface ->
           /\ pc' = [pc EXCEPT ![n] = "panic"]
           /\ net' = wire
           /\ UNCHANGED <<cur, peerVars, out>>
      [] m.type = "peerList" -> peerList_updatePeer(n, m, wire)
      [] m.type = "keepAlive" -> keepAlive_updatePeer(n, from, wire)
      [] m.type = "isAlive" -> isAlive_updatePeer(n, from, wire)
      [] m.type = "dataRelayedFrom" -> dataRelayedFrom_updatePeer(n, m, wire)
      [] OTHER -> dataDirect_updatePeer(n, m, from, wire)

\* case request, ok := <-requests with ok, for the datagram dg; rest is what
\* stays on the wire.  Decode; on an error continue; else m.updatePeer
PeerRequest(n, dg, rest) ==
    /\ CoreSelect(n)
    /\ cRequests[n]
    /\ requests[n] = "open"
    /\ UNCHANGED wbuf
    /\ UNCHANGED <<cRequests, cTimeout, cBroadcast, serverVars, watcherVars,
                   chanVars, ioVars, nTick, nBcast, nFire, histVars>>
    /\ IF Decode(peerRequest, dg.buf) = Nil
       THEN /\ net' = rest
            /\ UNCHANGED <<pc, cur, peerVars, out>>
       ELSE updatePeer(n, Decode(peerRequest, dg.buf), dg.from, rest)

\* a datagram on the wire reaches the reader and core of peer n
PeerRecv(n) ==
    /\ \E dg \in BagToSet(net) :
         /\ NodeAt(dg.to) = n
         /\ PeerRequest(n, dg, net (-) SetToBag({dg}))
    /\ UNCHANGED nInject

\* p.seenPeerAlive <- from is taken by the watcher; isAlive.updatePeer returns
PeerSeen(n) ==
    /\ pc[n] = "seen"
    /\ WatcherSeen(n, cur[n].from)
    /\ pc' = [pc EXCEPT ![n] = "select"]
    /\ cur' = [cur EXCEPT ![n] = Nil]
    /\ UNCHANGED <<netVars, cRequests, cTimeout, cBroadcast, serverVars, peerVars,
                   chanVars, ioVars, envVars, histVars>>

\* data <- PeerMsg{id, m.Data} is taken by the application
PeerData(n) ==
    /\ pc[n] = "data"
    /\ data[n] = "open"
    /\ delivered' = [delivered EXCEPT ![n] = Append(@, cur[n])]
    /\ pc' = [pc EXCEPT ![n] = "select"]
    /\ cur' = [cur EXCEPT ![n] = Nil]
    /\ UNCHANGED <<netVars, cRequests, cTimeout, cBroadcast, serverVars, peerVars,
                   watcherVars, chanVars, requests, conn, wrpc, fpc, broadcast, envVars,
                   histVars>>

\* case <-ticker: getPeerList to the server, keepAlive to every key of
\* peerIds, sent on responses one after the other
PeerTick(n, maxTick) ==
    /\ CoreSelect(n)
    /\ nTick[n] < maxTick
    /\ nTick' = [nTick EXCEPT ![n] = @ + 1]
    /\ \E ord \in Orders(DOMAIN peerIds[n]) :
         out' = [out EXCEPT ![n] =
                   <<response(serverAddressUdp, getPeerList)>>
                   \o [i \in DOMAIN ord |-> response(addrFromKey(ord[i]), keepAlive)]]
    /\ pc' = [pc EXCEPT ![n] = "reply"]
    /\ UNCHANGED <<net, wbuf, cur, cRequests, cTimeout, cBroadcast, serverVars,
                   peerVars, watcherVars, chanVars, ioVars, nInject, nBcast, nFire,
                   histVars>>

\* case a, ok := <-timeout with ok, deleting a from p.peerIds as well
PeerTimeout_ForgetsPeer(n) ==
    /\ CoreSelect(n)
    /\ cTimeout[n]
    /\ WatcherTimeoutOut(n)
    /\ alivePeers' = [alivePeers EXCEPT ![n] = @ \ {addrKey(wArg[n].addr)}]
    /\ peerIds' = [peerIds EXCEPT ![n] = MapDelete(@, addrKey(wArg[n].addr))]
    /\ UNCHANGED <<netVars, coreVars, serverVars, nextPeerId, everIds, chanVars,
                   ioVars, envVars, histVars>>

\* case a, ok := <-timeout with ok: delete(p.alivePeers, addrKey(a))
PeerTimeout(n) ==
    /\ CoreSelect(n)
    /\ cTimeout[n]
    /\ WatcherTimeoutOut(n)
    /\ alivePeers' = [alivePeers EXCEPT ![n] = @ \ {addrKey(wArg[n].addr)}]
    /\ UNCHANGED <<netVars, coreVars, serverVars, peerIds, nextPeerId, everIds, chanVars,
                   ioVars, envVars, histVars>>

\* the broadcast loop without the isAlive branch
broadcastResponse_RelayOnly(n, addr, buf) ==
    response(serverAddressUdp, dataRelayTo(addr, buf))

\* the response the broadcast loop sends for addr
broadcastResponse(n, addr, buf) ==
    IF addr \in alivePeers[n]
    THEN response(addrFromKey(addr), dataDirect(buf))
    ELSE response(serverAddressUdp, dataRelayTo(addr, buf))

\* what a broadcast of buf by n meets: relay holds the peers q it relays to
\* that are members of the server and know n, direct those it sends to directly
\* that know n
Snapshot(n, buf) ==
    [buf |-> buf,
     relay |-> {q \in Nodes : /\ addrKey(UDPAddr(q)) \in DOMAIN peerIds[n] \ alivePeers[n]
                              /\ addrKey(UDPAddr(q)) \in sPeers
                              /\ addrKey(UDPAddr(n)) \in DOMAIN peerIds[q]},
     direct |-> {q \in Nodes : /\ addrKey(UDPAddr(q)) \in DOMAIN peerIds[n] \cap alivePeers[n]
                               /\ addrKey(UDPAddr(n)) \in DOMAIN peerIds[q]}]

\* case buf, ok := <-broadcast with ok: the application hands over buf; one
\* response per key of peerIds, sent on responses one after the other
PeerBroadcast(n) ==
    /\ CoreSelect(n)
    /\ cBroadcast[n]
    /\ broadcast[n] = "open"
    /\ nBcast[n] < MaxBcast
    /\ nBcast' = [nBcast EXCEPT ![n] = @ + 1]
    /\ \E buf \in Payloads, ord \in Orders(DOMAIN peerIds[n]) :
         /\ out' = [out EXCEPT ![n] =
                      [i \in DOMAIN ord |-> broadcastResponse(n, ord[i], buf)]]
         /\ bcasts' = [bcasts EXCEPT ![n] =
                         IF DOMAIN peerIds[n] = {} THEN @ ELSE Append(@, Snapshot(n, buf))]
    /\ pc' = [pc EXCEPT ![n] = IF DOMAIN peerIds[n] = {} THEN "select" ELSE "reply"]
    /\ UNCHANGED <<net, wbuf, cur, cRequests, cTimeout, cBroadcast, serverVars,
                   peerVars, watcherVars, chanVars, ioVars, nInject, nTick, nFire>>

\* case buf, ok := <-broadcast with !ok, taken as the end of the inbound
\* requests as well
PeerBroadcastClosed_ShutsDown(n) ==
    /\ CoreSelect(n)
    /\ cBroadcast[n]
    /\ broadcast[n] = "closed"
    /\ cBroadcast' = [cBroadcast EXCEPT ![n] = FALSE]
    /\ cRequests' = [cRequests EXCEPT ![n] = FALSE]
    /\ seen' = [seen EXCEPT ![n] = "closed"]
    /\ UNCHANGED <<netVars, pc, cur, cTimeout, serverVars, peerVars, watcherVars,
                   timeout, timeoutInner, responses, data, ioVars, envVars, histVars>>

\* case buf, ok := <-broadcast with !ok: broadcast = nil
PeerBroadcastClosed(n) ==
    /\ CoreSelect(n)
    /\ cBroadcast[n]
    /\ broadcast[n] = "closed"
    /\ cBroadcast' = [cBroadcast EXCEPT ![n] = FALSE]
    /\ UNCHANGED <<netVars, pc, cur, cRequests, cTimeout, serverVars, peerVars,
                   watcherVars, chanVars, ioVars, envVars, histVars>>

\* the application closes its broadcast channel
AppCloseBroadcast(n) ==
    /\ Running(n)
    /\ broadcast[n] = "open"
    /\ broadcast' = [broadcast EXCEPT ![n] = "closed"]
    /\ UNCHANGED <<netVars, coreVars, serverVars, peerVars, watcherVars, chanVars,
                   requests, conn, wrpc, fpc, delivered, envVars, histVars>>

(***************************************************************************)
(* One peer with the server and the other peers as environment.            *)
(***************************************************************************)
Peer == "P1"
Others == {"P2", "P3"}

\* the address lists a PeerList may carry
Lists == UNION {[1..l -> {addrKey(UDPAddr(h)) : h \in Others}] : l \in 0..MaxLen}

\* what may arrive at the peer
PeerInputs ==
    {Datagram(UDPAddr(h), UDPAddr(Peer), m) :
        h \in Others,
        m \in {keepAlive, isAlive, getPeerList}
              \cup {dataDirect(d) : d \in Payloads}}
    \cup {Datagram(UDPAddr(Server), UDPAddr(Peer), m) :
        m \in {peerList(as) : as \in Lists}
              \cup {dataRelayedFrom(addrKey(UDPAddr(h)), d) : h \in Others, d \in Payloads}}
    \cup {[from |-> UDPAddr(Server), to |-> UDPAddr(Peer), buf |-> b] :
            b \in {Garbage, NilStream}}

\* a datagram from the environment reaches the peer's reader and core
PeerInject ==
    /\ nInject < MaxPeerInject
    /\ \E dg \in PeerInputs : PeerRequest(Peer, dg, net)
    /\ nInject' = nInject + 1

PeerStep(n) ==
    \/ WriterTake(n)
    \/ WriterWrite(n)
    \/ PeerSeen(n)
    \/ PeerData(n)
    \/ PeerTimeout(n)
    \/ WatcherTrack(n)
    \/ WatcherFeed(n)
    \/ WatcherTimeoutInner(n)

PeerShutdown(n) ==
    \/ ReaderFail(n)
    \/ AppCloseBroadcast(n)
    \/ PeerBroadcastClosed(n)
    \/ CoreRequestsClosed(n)
    \/ CoreTimeoutClosed(n)
    \/ CoreExit(n)
    \/ WatcherSeenClosed(n)
    \/ WatcherExit(n)
    \/ WriterExit(n)
    \/ FacadeClose(n)
    \/ FacadeDone(n)

NextPeer ==
    \/ PeerInject
    \/ PeerTick(Peer, MaxPeerTick)
    \/ PeerBroadcast(Peer)
    \/ DogFire(Peer)
    \/ PeerStep(Peer)
    \/ PeerShutdown(Peer)

SpecPeer == Init /\ [][NextPeer]_vars

(***************************************************************************)
(* The mesh: the server and two peers over a network that may reorder and  *)
(* delay datagrams, and loses none.                                        *)
(***************************************************************************)
Peers == {"P1", "P2"}

\* the peer whose application broadcasts, and the peer it is to reach
Src == "P1"
Dst == "P2"

NextMesh ==
    \/ ServerRecv
    \/ ServerSeen
    \/ ServerUpdate
    \/ ServerTimeout
    \/ ServerDelete
    \/ WriterTake(Server)
    \/ WriterWrite(Server)
    \/ WatcherTrack(Server)
    \/ WatcherFeed(Server)
    \/ WatcherTimeoutInner(Server)
    \/ \E n \in Peers : PeerRecv(n) \/ PeerTick(n, MaxTick) \/ PeerStep(n)
    \/ PeerBroadcast(Src)
    \/ \E n \in Nodes : DogFireBounded(n)

SpecMesh == Init /\ [][NextMesh]_vars

(***************************************************************************)
(* Properties of the peer core, checked under SpecPeer.                    *)
(***************************************************************************)
KeyOf(h) == addrKey(UDPAddr(h))

\* the set of elements of a sequence
Range(q) == {q[i] : i \in DOMAIN q}

\* the datagrams for the responses the core of n hands to its writer in a
\* step: its sends on the response channel, in the writer's encoding
Emitted(n) == IF out[n] = <<>> THEN Written(n, out'[n]) ELSE EmptyBag

\* the writer of n takes the responses in the order the core sends them and
\* writes each as one datagram; nothing else reaches the wire, and the core
\* begins its sends only when it has none left
WriterStep(n) ==
    /\ (wbuf[n] = Nil /\ wbuf'[n] # Nil) =>
          /\ out[n] # <<>>
          /\ wbuf'[n] = Head(out[n])
          /\ out'[n] = Tail(out[n])
          /\ net' = net
    /\ (wbuf[n] # Nil /\ wbuf'[n] # wbuf[n]) =>
          /\ wbuf'[n] = Nil
          /\ out'[n] = out[n]
          /\ net' = net (+) SetToBag({Datagram(UDPAddr(n), wbuf[n].to, wbuf[n].m)})
    /\ out'[n] # out[n] => out[n] = <<>> \/ out'[n] = Tail(out[n])
    /\ (\E dg \in BagToSet(net') : CopiesIn(dg, net') > CopiesIn(dg, net)) =>
          \E q \in Nodes : wbuf[q] # Nil /\ wbuf'[q] = Nil

\* C1: a broadcast of d emits exactly one message per key k of peerIds and no
\* other: DataDirect{d} to the endpoint of k when k is alive, else
\* DataRelayTo{to: k, d} to the server; peerIds, nextPeerId and alive stay.
\* The core sends the messages on the response channel and the writer puts
\* each of them on the wire as one datagram, in that order.
C1_BroadcastFanOut ==
    [][/\ WriterStep(Peer)
       /\ nBcast'[Peer] # nBcast[Peer] =>
        /\ net' = net
        /\ BagCardinality(Emitted(Peer)) = Cardinality(DOMAIN peerIds[Peer])
        /\ \E d \in Payloads : \A k \in DOMAIN peerIds[Peer] :
             \E dg \in BagToSet(Emitted(Peer)) :
                /\ CopiesIn(dg, Emitted(Peer)) = 1
                /\ IF k \in alivePeers[Peer]
                   THEN /\ addrKey(dg.to) = k
                        /\ Decode(peerRequest, dg.buf) = dataDirect(d)
                   ELSE /\ addrKey(dg.to) = KeyOf(Server)
                        /\ Decode(serverRequest, dg.buf) = dataRelayTo(k, d)
        /\ UNCHANGED <<peerIds, nextPeerId, alivePeers>>]_vars

\* a broadcast went out both ways: direct to the alive P2, relayed for P3
C1_Witness ==
    /\ nBcast[Peer] = 1
    /\ \E d \in Payloads :
         /\ BagIn(Datagram(UDPAddr(Peer), addrFromKey(KeyOf("P2")), dataDirect(d)), net)
         /\ BagIn(Datagram(UDPAddr(Peer), serverAddressUdp, dataRelayTo(KeyOf("P3"), d)), net)

\* the PeerLists among the peer's inputs
PeerListInputs == {dg \in PeerInputs : dg.buf[1] = "peerList"}

\* peerIds is injective and every id in it is below nextPeerId
IdsInjective ==
    /\ \A a, b \in DOMAIN peerIds[Peer] : a # b => peerIds[Peer][a] # peerIds[Peer][b]
    /\ \A a \in DOMAIN peerIds[Peer] : peerIds[Peer][a] < nextPeerId[Peer]

\* what processing PeerList{A} does to peerIds
PeerListEffect(A) ==
    /\ DOMAIN peerIds'[Peer] = Range(A)
    /\ \A a \in Range(A) \cap DOMAIN peerIds[Peer] : peerIds'[Peer][a] = peerIds[Peer][a]
    /\ \A a, b \in Range(A) \ DOMAIN peerIds[Peer] :
         a # b => peerIds'[Peer][a] # peerIds'[Peer][b]
    /\ \A a \in Range(A) \ DOMAIN peerIds[Peer] : peerIds'[Peer][a] \notin everIds[Peer]

\* C2: after PeerList{A} the domain of peerIds is the set of A, known addresses
\* keep their id, new ones get distinct ids never held before; peerIds is
\* injective with ids below nextPeerId, which never decreases.
C2_PeerListIds ==
    /\ IdsInjective
    /\ [][/\ \A dg \in PeerListInputs :
               PeerRequest(Peer, dg, net) => PeerListEffect(dg.buf[2])
          /\ IdsInjective'
          /\ nextPeerId'[Peer] >= nextPeerId[Peer]]_vars

\* P2 kept id 0 through a later list that brought a new address, after an id
\* was spent on an address since dropped or repeated
C2_Witness ==
    /\ DOMAIN peerIds[Peer] = {KeyOf("P2"), KeyOf("P3")}
    /\ peerIds[Peer][KeyOf("P2")] = 0
    /\ peerIds[Peer][KeyOf("P3")] >= 2

\* the payload-bearing inputs, with the key each is attributed to
DataInputs == {dg \in PeerInputs : dg.buf[1] \in {"dataDirect", "dataRelayedFrom"}}
SourceKey(dg) == IF dg.buf[1] = "dataDirect" THEN addrKey(dg.from) ELSE dg.buf[2]
DataOf(dg) == IF dg.buf[1] = "dataDirect" THEN dg.buf[2] ELSE dg.buf[3]

\* C3: a PeerMsg is put on the inbound channel only for a DataDirect whose
\* sender key, or a DataRelayedFrom whose from, is in peerIds, with that key's
\* id and the received data; from an unknown key nothing is delivered and no
\* peer state changes.
C3_DeliveryFromKnown ==
    [][/\ \A dg \in DataInputs : PeerRequest(Peer, dg, net) =>
            IF SourceKey(dg) \in DOMAIN peerIds[Peer]
            THEN /\ pc'[Peer] = "data"
                 /\ cur'[Peer] = PeerMsg(peerIds[Peer][SourceKey(dg)], DataOf(dg))
            ELSE UNCHANGED <<pc, cur, peerVars, delivered, netVars, watcherVars>>
       /\ (pc'[Peer] = "data" /\ pc[Peer] # "data") =>
            \E dg \in DataInputs :
               /\ PeerRequest(Peer, dg, net)
               /\ SourceKey(dg) \in DOMAIN peerIds[Peer]
       /\ delivered'[Peer] # delivered[Peer] =>
            /\ pc[Peer] = "data"
            /\ delivered'[Peer] = Append(delivered[Peer], cur[Peer])]_vars

\* the application received a direct and a relayed payload
C3_Witness ==
    /\ Len(delivered[Peer]) = 2
    /\ delivered[Peer][1].PeerId # delivered[Peer][2].PeerId

(***************************************************************************)
(* Properties of the server core, checked under SpecServer.                *)
(***************************************************************************)
\* the server completes the handling of a request of the given type
ServerHandles(type) ==
    /\ pc[Server] = "update"
    /\ pc'[Server] \in {"select", "reply"}
    /\ cur[Server].m.type = type

\* C4: handling DataRelayTo{to, data} from s, the server emits exactly one
\* message iff to is in members: DataRelayedFrom{from: key(s), data} to the
\* endpoint of to; otherwise nothing; members stays.  The core sends the
\* message on the response channel and the writer puts it on the wire as one
\* datagram.
C4_Relay ==
    [][/\ WriterStep(Server)
       /\ ServerHandles("dataRelayTo") =>
        LET m == cur[Server].m
            s == cur[Server].from
        IN /\ net' = net
           /\ IF m.To \in sPeers
              THEN /\ BagCardinality(Emitted(Server)) = 1
                   /\ \A dg \in BagToSet(Emitted(Server)) :
                        /\ addrKey(dg.to) = m.To
                        /\ Decode(peerRequest, dg.buf) = dataRelayedFrom(addrKey(s), m.Data)
              ELSE Emitted(Server) = EmptyBag /\ pc'[Server] = "select"
           /\ sPeers' = sPeers]_vars

\* P1's payload for the member P2 was forwarded, and one for a non-member dropped
C4_Witness ==
    /\ BagIn(Datagram(UDPAddr(Server), addrFromKey(KeyOf("P2")),
                      dataRelayedFrom(KeyOf("P1"), "d1")), net)
    /\ BagCardinality(net) = 2
    /\ nInject = 3
    /\ pc[Server] = "select"
    /\ sPeers = {KeyOf("P2")}

\* C5: handling GetPeerList from s, the server has key(s) in members and sends
\* to s exactly one PeerList, whose addresses are members minus key(s), none
\* repeated.  The core sends the reply on the response channel and the writer
\* puts it on the wire as one datagram.
C5_PeerListReply ==
    [][/\ WriterStep(Server)
       /\ ServerHandles("getPeerList") =>
        LET s == cur[Server].from IN
        /\ addrKey(s) \in sPeers'
        /\ net' = net
        /\ BagCardinality(Emitted(Server)) = 1
        /\ \A dg \in BagToSet(Emitted(Server)) :
             /\ dg.to = s
             /\ dg.buf[1] = "peerList"
             /\ Range(dg.buf[2]) = sPeers' \ {addrKey(s)}
             /\ Len(dg.buf[2]) = Cardinality(Range(dg.buf[2]))]_vars

\* join and list: P1 got the empty list, then P2 got P1, then P1 got P2
C5_Witness ==
    /\ BagIn(Datagram(UDPAddr(Server), UDPAddr("P1"), peerList(<<>>)), net)
    /\ BagIn(Datagram(UDPAddr(Server), UDPAddr("P2"), peerList(<<KeyOf("P1")>>)), net)
    /\ BagIn(Datagram(UDPAddr(Server), UDPAddr("P1"), peerList(<<KeyOf("P2")>>)), net)

\* C6: whenever the server core is idle, members is the set of keys that sent
\* a decodable request (GetPeerList or DataRelayTo) and have not timed out since.
C6_MembersAreLive == pc[Server] = "select" => sPeers = live

(***************************************************************************)
(* End-to-end properties, checked under SpecMesh: Src broadcasts, Dst is   *)
(* to deliver.                                                             *)
(***************************************************************************)
\* how many datagrams of the bag B pass Test
Count(B, Test(_)) ==
    BagCardinality([dg \in {x \in DOMAIN B : Test(x)} |-> B[dg]])

\* how many elements of the sequence q pass Test
Times(q, Test(_)) == Len(SelectSeq(q, Test))

\* the datagrams that carry payload d from Src towards Dst
IsRelayTo(dg, d) ==
    /\ dg.from = UDPAddr(Src)
    /\ addrKey(dg.to) = KeyOf(Server)
    /\ Decode(serverRequest, dg.buf) = dataRelayTo(KeyOf(Dst), d)
IsRelayedFrom(dg, d) ==
    /\ addrKey(dg.to) = KeyOf(Dst)
    /\ Decode(peerRequest, dg.buf) = dataRelayedFrom(KeyOf(Src), d)
IsDirect(dg, d) ==
    /\ dg.from = UDPAddr(Src)
    /\ addrKey(dg.to) = KeyOf(Dst)
    /\ Decode(peerRequest, dg.buf) = dataDirect(d)

\* Src's application hands a payload to its core
SrcBroadcasts == nBcast'[Src] # nBcast[Src]

\* Dst's core hands a PeerMsg to its application
DstDelivers == pc[Dst] = "data" /\ pc'[Dst] # "data"

\* how often Dst's application has received payload d
Delivered(d) == Times(delivered[Dst], LAMBDA x : x.Buf = d)

\* how often Src has broadcast payload d
Broadcast(d) == Times(bcasts[Src], LAMBDA b : b.buf = d)

\* the datagrams node n has yet to put on the wire: the responses its core has
\* still to send and the one its writer holds
Pending(n) ==
    Written(n, out[n]) (+) (IF wbuf[n] = Nil THEN EmptyBag ELSE Written(n, <<wbuf[n]>>))

\* the datagrams on the wire or on their way to it
Outbound == net (+) Pending(Src) (+) Pending(Server)

\* nothing is in flight and every core stands idle in its select
Quiet ==
    /\ net = EmptyBag
    /\ \A n \in Nodes : pc[n] = "select" /\ wbuf[n] = Nil

\* payload d on the relay path: on its way to the server, in the server's
\* hands, on its way to Dst, or in Dst's hands
OnRelayPath(d) ==
    Count(Outbound, LAMBDA dg : IsRelayTo(dg, d))
    + (IF /\ pc[Server] \in {"seen", "update"}
          /\ addrKey(cur[Server].from) = KeyOf(Src)
          /\ cur[Server].m = dataRelayTo(KeyOf(Dst), d) THEN 1 ELSE 0)
    + Count(Outbound, LAMBDA dg : IsRelayedFrom(dg, d))
    + (IF pc[Dst] = "data" /\ cur[Dst].Buf = d THEN 1 ELSE 0)

\* payload d on the direct path: on its way to Dst, or in Dst's hands
OnDirectPath(d) ==
    Count(Outbound, LAMBDA dg : IsDirect(dg, d))
    + (IF pc[Dst] = "data" /\ cur[Dst].Buf = d THEN 1 ELSE 0)

\* C7 as claimed: a broadcast of d by Src that met Dst known but not alive, Dst
\* a member and Src known to Dst has, once nothing is in flight any more, been
\* delivered by Dst exactly once.
C7_RelayDelivers ==
    \A i \in DOMAIN bcasts[Src] :
        (Dst \in bcasts[Src][i].relay /\ Quiet) =>
            Delivered(bcasts[Src][i].buf) = Broadcast(bcasts[Src][i].buf)

\* C7 amended: a broadcast of d by Src with Dst known and not alive sends one
\* DataRelayTo{to: key(Dst), d} to the server and no DataDirect to Dst; the
\* server forwards it as DataRelayedFrom{from: key(Src), d} to Dst when Dst is
\* a member as it handles it; Dst hands (peerIds[key(Src)], d) to its
\* application when Src is in its peerIds as it handles it, and drops it
\* otherwise; d is delivered and on its way no more often than broadcast.
C7_RelayPath ==
    /\ [](\A d \in Payloads : OnRelayPath(d) + Delivered(d) <= Broadcast(d))
    /\ [][/\ WriterStep(Src) /\ WriterStep(Server)
          /\ (SrcBroadcasts /\ KeyOf(Dst) \in DOMAIN peerIds[Src] \ alivePeers[Src]) =>
               \E d \in Payloads :
                  /\ Count(Emitted(Src), LAMBDA dg : IsRelayTo(dg, d)) = 1
                  /\ \A e \in Payloads : Count(Emitted(Src), LAMBDA dg : IsDirect(dg, e)) = 0
          /\ \A d \in Payloads :
               (/\ ServerHandles("dataRelayTo")
                /\ addrKey(cur[Server].from) = KeyOf(Src)
                /\ cur[Server].m = dataRelayTo(KeyOf(Dst), d)
                /\ KeyOf(Dst) \in sPeers) =>
                   /\ BagCardinality(Emitted(Server)) = 1
                   /\ Count(Emitted(Server), LAMBDA dg : IsRelayedFrom(dg, d)) = 1
          /\ \A dg \in BagToSet(net), d \in Payloads :
               (IsRelayedFrom(dg, d) /\ PeerRequest(Dst, dg, net (-) SetToBag({dg}))) =>
                   IF KeyOf(Src) \in DOMAIN peerIds[Dst]
                   THEN /\ pc'[Dst] = "data"
                        /\ cur'[Dst] = PeerMsg(peerIds[Dst][KeyOf(Src)], d)
                   ELSE UNCHANGED <<pc, cur, delivered>>
          /\ DstDelivers => delivered'[Dst] = Append(delivered[Dst], cur[Dst])]_vars

\* Dst delivered a payload that Src broadcast while Dst was not alive to it
C7_Witness ==
    /\ Len(bcasts[Src]) = 1
    /\ Dst \in bcasts[Src][1].relay
    /\ Delivered(bcasts[Src][1].buf) = 1
    /\ Quiet

\* C8 as claimed: a broadcast of d by Src that met Dst known and alive and Src
\* known to Dst has, once nothing is in flight any more, been delivered by Dst
\* exactly once.
C8_DirectDelivers ==
    \A i \in DOMAIN bcasts[Src] :
        (Dst \in bcasts[Src][i].direct /\ Quiet) =>
            Delivered(bcasts[Src][i].buf) = Broadcast(bcasts[Src][i].buf)

\* C8 amended: a broadcast of d by Src with Dst known and alive sends one
\* DataDirect{d} to Dst and no DataRelayTo targeting Dst; Dst hands
\* (peerIds[key(Src)], d) to its application when Src is in its peerIds as it
\* handles the datagram, and drops it otherwise; d is delivered and on its way
\* no more often than broadcast.
C8_DirectPath ==
    /\ [](\A d \in Payloads : OnDirectPath(d) + Delivered(d) <= Broadcast(d))
    /\ [][/\ WriterStep(Src)
          /\ (SrcBroadcasts /\ KeyOf(Dst) \in DOMAIN peerIds[Src] \cap alivePeers[Src]) =>
               \E d \in Payloads :
                  /\ Count(Emitted(Src), LAMBDA dg : IsDirect(dg, d)) = 1
                  /\ \A e \in Payloads : Count(Emitted(Src), LAMBDA dg : IsRelayTo(dg, e)) = 0
          /\ \A dg \in BagToSet(net), d \in Payloads :
               (IsDirect(dg, d) /\ PeerRequest(Dst, dg, net (-) SetToBag({dg}))) =>
                   IF KeyOf(Src) \in DOMAIN peerIds[Dst]
                   THEN /\ pc'[Dst] = "data"
                        /\ cur'[Dst] = PeerMsg(peerIds[Dst][KeyOf(Src)], d)
                   ELSE UNCHANGED <<pc, cur, delivered>>
          /\ DstDelivers => delivered'[Dst] = Append(delivered[Dst], cur[Dst])]_vars

\* Dst delivered a payload that Src broadcast while Dst was alive to it
C8_Witness ==
    /\ Len(bcasts[Src]) = 1
    /\ Dst \in bcasts[Src][1].direct
    /\ Delivered(bcasts[Src][1].buf) = 1
    /\ Quiet

(***************************************************************************)
(* Progress of the server, checked under FairSpecServer.  The clients send *)
(* MaxInject datagrams in all, so each of them stops sending.              *)
(***************************************************************************)
\* C9: a member that stops sending has its watchdog timeout processed by the
\* server core and is removed from members, as long as the server is running.
C9_Eviction ==
    \A a \in Clients :
        (KeyOf(a) \in sPeers) ~> (KeyOf(a) \notin sPeers \/ ~Running(Server))

\* C10: once the reader has closed the request channel, the core closes seen,
\* the watcher closes the timeout channel, the core closes the response
\* channel, the writer reports completion and the facade closes the socket and
\* emits the completion signal, unless the process has ended before.
C10_ShutdownTerminates ==
    (requests[Server] = "closed") ~>
        \/ /\ seen[Server] = "closed"
           /\ timeout[Server] = "closed"
           /\ responses[Server] = "closed"
           /\ wrpc[Server] = "done"
           /\ conn[Server] = 1
           /\ fpc[Server] = "end"
        \/ ~Running(Server)

(***************************************************************************)
(* Watchdog tracking on the server, checked under SpecServer.              *)
(***************************************************************************)
\* the watchdog goroutines of node n for the key k that have not yet handed
\* their timeout to the watcher
DogsOf(n, k) == {c \in DOMAIN dogs[n] : addrKey(dogs[n][c].addr) = k}

\* key k is tracked at node n: the watcher map has an entry for it and exactly
\* one watchdog for it runs, the one of that entry
Tracked(n, k) ==
    /\ k \in DOMAIN wPeers[n]
    /\ DogsOf(n, k) = {wPeers[n][k]}

\* the watcher of node n has taken the timeout of key k from its watchdog and
\* stands at its send of it to the core
TimeoutHeld(n, k) == wpc[n] = "timeout" /\ addrKey(wArg[n].addr) = k

\* C11 as claimed: in every reachable state every member key has a watcher map
\* entry and exactly one watchdog that has not yet emitted its timeout.
C11_MembersTracked == \A k \in sPeers : Tracked(Server, k)

\* the watcher of node n has taken a sighting of key k from the core and has
\* not yet looked it up in its map
SightingHeld(n, k) == wpc[n] = "got" /\ addrKey(wArg[n].addr) = k

\* the server core has taken the timeout of key k from the watcher and has not
\* yet deleted the key from members
TimeoutTaken(k) == pc[Server] = "timedout" /\ addrKey(cur[Server].a) = k

\* C11 amended: every member key is tracked by exactly one watchdog (map entry
\* and one running watchdog), or the watcher holds a sighting of it that it
\* has not yet entered in its map, or its watchdog has fired and exited and
\* its timeout is held by the watcher or by the core, which has not yet
\* removed the key.
C11_MembersTrackedOrPending ==
    \A k \in sPeers :
        \/ Tracked(Server, k)
        \/ SightingHeld(Server, k)
        \/ TimeoutHeld(Server, k)
        \/ TimeoutTaken(k)

\* two members, one tracked, the other inserted by the core while the watcher
\* still holds its first sighting and has made no entry for it
C11_Witness ==
    /\ \E k \in sPeers : Tracked(Server, k)
    /\ \E k \in sPeers : SightingHeld(Server, k) /\ ~Tracked(Server, k)

(***************************************************************************)
(* The peer's alive set, checked under SpecPeer.                           *)
(***************************************************************************)
\* C12: an address is added to the peer's alive set only while it is a key of
\* peerIds; and while no PeerList has named any address yet (so none can have
\* been dropped from peerIds), alive is empty.
C12_AliveWithinPeerIds ==
    /\ [](nextPeerId[Peer] = 0 => alivePeers[Peer] = {})
    /\ [][\A k \in alivePeers'[Peer] \ alivePeers[Peer] : k \in DOMAIN peerIds[Peer]]_vars

(***************************************************************************)
(* The watcher's timeouts, checked under FairSpecServer.                   *)
(***************************************************************************)
\* the watcher takes a timeout only from the one watchdog of a key that has a
\* map entry (so the key was sighted since its previous timeout), and after
\* that neither the entry nor a watchdog for the key remains
TimeoutOnlyForTracked ==
    [][\A k \in Keys :
         ((TimeoutHeld(Server, k))' /\ wpc[Server] # "timeout") =>
             /\ Tracked(Server, k)
             /\ k \notin DOMAIN wPeers'[Server]
             /\ (DogsOf(Server, k))' = {}]_vars

\* the key k is watched: it has been sighted and its timeout not yet taken
Watched(n, k) == k \in DOMAIN wPeers[n]

\* the timeout of key k has left the watcher: no entry, and not in its hands
TimedOut(n, k) == k \notin DOMAIN wPeers[n] /\ ~TimeoutHeld(n, k)

\* C13: every sighting of a key that no further sighting follows leads to the
\* watcher emitting a timeout for that key on its outward channel, after which
\* no map entry and no watchdog for it remains; and no timeout is emitted for a
\* key that was not sighted since its previous timeout; all this as long as
\* the server is running.
C13_SightingTimesOut ==
    /\ TimeoutOnlyForTracked
    /\ \A k \in Keys :
         Watched(Server, k) ~> (TimedOut(Server, k) \/ ~Running(Server))

(***************************************************************************)
(* The watcher's hand-off to its watchdogs, checked under SpecServer.      *)
(***************************************************************************)
\* at most one watchdog per address, and a map entry iff the address has a
\* watchdog that has not yet handed over its timeout
WatchdogPerEntry(n) ==
    \A k \in Keys :
        /\ Cardinality(DogsOf(n, k)) <= 1
        /\ k \in DOMAIN wPeers[n] <=> DogsOf(n, k) # {}
        /\ k \in DOMAIN wPeers[n] => wPeers[n][k] \in DogsOf(n, k)

\* C14: a watchdog is spawned only for an address without a map entry, so
\* there is at most one per address and an entry iff a watchdog is outstanding;
\* and whenever the watcher stands at its send of the reset signal, the
\* watchdog it sends to is still timing, never one that has fired or exited.
C14_ResetReachesTimingDog ==
    /\ WatchdogPerEntry(Server)
    /\ wpc[Server] = "feed" =>
         /\ wArg[Server].ch \in DOMAIN dogs[Server]
         /\ dogs[Server][wArg[Server].ch].st = "timing"

(***************************************************************************)
(* The shutdown cascade, checked under SpecPeer.                           *)
(***************************************************************************)
\* the channel ch of node n is closed by this step
Closes(ch, n) == ch[n] = "open" /\ ch'[n] = "closed"

\* C15: seen is closed only after the request channel is closed; the inner and
\* outward timeout channels only after seen is closed, the watcher map is
\* empty and every watchdog has exited; the response channel and the peer's
\* application inbound channel only after the timeout channel is closed; the
\* socket is closed once, and only after the writer has reported completion.
C15_CascadeOrder ==
    /\ [](\A n \in Nodes : conn[n] <= 1)
    /\ [][\A n \in Nodes :
           /\ Closes(seen, n) => requests[n] = "closed"
           /\ (Closes(timeout, n) \/ Closes(timeoutInner, n)) =>
                /\ seen[n] = "closed"
                /\ DOMAIN wPeers[n] = {}
                /\ DOMAIN dogs[n] = {}
           /\ (Closes(responses, n) \/ Closes(data, n)) =>
                /\ timeout[n] = "closed"
                /\ requests[n] = "closed"
           /\ conn'[n] # conn[n] =>
                /\ conn[n] = 0
                /\ wrpc[n] = "done"
                /\ responses[n] = "closed"]_vars

\* the peer has handled datagrams and then shut down to the end of the cascade
C15_Witness ==
    /\ fpc[Peer] = "end"
    /\ conn[Peer] = 1
    /\ data[Peer] = "closed"
    /\ timeoutInner[Peer] = "closed"
    /\ nInject > 0

(***************************************************************************)
(* Decode failures on the server, checked under SpecServer.                *)
(***************************************************************************)
\* the variants the server accepts
ServerAccepted == {"getPeerList", "dataRelayTo"}

\* C16: a datagram that does not decode to a GetPeerList or a DataRelayTo
\* (malformed bytes, a variant outside the accepted set, or the stream of a nil
\* interface value) is dropped: no seen signal, no watchdog created or
\* refreshed, members unchanged, no reply, and the core stays in its loop; a
\* datagram that decodes makes the core go on to emit seen, before any change
\* of members and any reply; and the watcher receives a sighting only from a
\* core that holds a decoded GetPeerList or DataRelayTo.
C16_UndecodableDropped ==
    [][/\ \A dg \in ServerInputs :
            ServerRequest(dg, net) =>
                IF dg.buf[1] \in ServerAccepted
                THEN /\ pc'[Server] = "seen"
                     /\ cur'[Server].from = dg.from
                     /\ cur'[Server].m.type = dg.buf[1]
                     /\ UNCHANGED <<netVars, serverVars, watcherVars, chanVars>>
                ELSE /\ pc'[Server] = "select"
                     /\ UNCHANGED <<netVars, cur, cRequests, cTimeout, serverVars,
                                    watcherVars, chanVars, ioVars>>
       /\ (wpc[Server] # "got" /\ wpc'[Server] = "got") =>
            /\ pc[Server] = "seen"
            /\ cur[Server].m.type \in ServerAccepted]_vars

(***************************************************************************)
(* What each event of the peer may change, checked under SpecPeer.         *)
(***************************************************************************)
\* the peer core takes a datagram of the given variant from its reader
PeerHandles(type) ==
    \E dg \in PeerInputs : dg.buf[1] = type /\ PeerRequest(Peer, dg, net)

\* C17: peerIds and nextPeerId change only in processing a PeerList; an
\* address enters alive, and is emitted on seenPeerAlive, only in processing an
\* IsAlive from it; an address leaves alive only by the watcher's timeout for
\* it, which leaves peerIds and nextPeerId alone; tick, broadcast, KeepAlive,
\* DataDirect and DataRelayedFrom leave peerIds, nextPeerId and alive alone and
\* emit nothing on seenPeerAlive.
C17_PeerFrame ==
    [][/\ (peerIds'[Peer] # peerIds[Peer] \/ nextPeerId'[Peer] # nextPeerId[Peer]) =>
            /\ PeerHandles("peerList")
            /\ alivePeers'[Peer] = alivePeers[Peer]
       /\ (alivePeers'[Peer] \ alivePeers[Peer] # {} \/ (pc[Peer] # "seen" /\ pc'[Peer] = "seen")) =>
            \E dg \in PeerInputs :
               /\ dg.buf[1] = "isAlive"
               /\ PeerRequest(Peer, dg, net)
               /\ alivePeers'[Peer] = alivePeers[Peer] \cup {addrKey(dg.from)}
               /\ pc'[Peer] = "seen"
               /\ cur'[Peer].from = dg.from
       /\ (wpc[Peer] # "got" /\ wpc'[Peer] = "got") =>
            /\ pc[Peer] = "seen"
            /\ addrKey(cur[Peer].from) \in alivePeers[Peer]
       /\ alivePeers[Peer] \ alivePeers'[Peer] # {} =>
            /\ wpc[Peer] = "timeout"
            /\ wpc'[Peer] = "select"
            /\ alivePeers'[Peer] = alivePeers[Peer] \ {addrKey(wArg[Peer].addr)}
            /\ UNCHANGED <<peerIds, nextPeerId>>
       /\ \A dg \in PeerInputs :
            (/\ dg.buf[1] \in {"keepAlive", "dataDirect", "dataRelayedFrom"}
             /\ PeerRequest(Peer, dg, net)) =>
                /\ UNCHANGED <<peerIds, nextPeerId, alivePeers>>
                /\ pc'[Peer] # "seen"
       /\ (nTick'[Peer] # nTick[Peer] \/ nBcast'[Peer] # nBcast[Peer]) =>
            /\ UNCHANGED <<peerIds, nextPeerId, alivePeers, seen, watcherVars>>
            /\ pc'[Peer] \in {"select", "reply"}]_vars

\* P2 was named by a PeerList and marked alive by its IsAlive, its watchdog
\* has fired, and the watcher holds the timeout that will take it out of alive
C17_Witness ==
    /\ KeyOf("P2") \in DOMAIN peerIds[Peer]
    /\ KeyOf("P2") \in alivePeers[Peer]
    /\ TimeoutHeld(Peer, KeyOf("P2"))
    /\ pc[Peer] = "select"

(***************************************************************************)
(* Closing the broadcast channel, checked under SpecPeer.                  *)
(***************************************************************************)
\* the peer core has seen its broadcast channel closed
HalfClosed == ~cBroadcast[Peer]

\* C18: a broadcast is taken only from an open broadcast channel; the core's
\* step on finding it closed changes nothing but its broadcast variable; after
\* it the core still takes requests, ticks and watcher timeouts whenever it
\* stands in its select with the channel in question ready; and the
\* application inbound and the response channel are closed only with the
\* request channel and the watcher's timeout channel both closed.
C18_HalfClose ==
    /\ [](HalfClosed /\ requests[Peer] = "open" =>
             /\ pc[Peer] # "done"
             /\ data[Peer] = "open"
             /\ responses[Peer] = "open"
             /\ seen[Peer] = "open")
    /\ [](HalfClosed /\ CoreSelect(Peer) =>
             /\ (cRequests[Peer] /\ requests[Peer] = "open") =>
                    \A dg \in PeerInputs : ENABLED PeerRequest(Peer, dg, net)
             /\ nTick[Peer] < MaxPeerTick => ENABLED PeerTick(Peer, MaxPeerTick)
             /\ wpc[Peer] = "timeout" => ENABLED PeerTimeout(Peer))
    /\ [][/\ nBcast'[Peer] # nBcast[Peer] => broadcast[Peer] = "open" /\ ~HalfClosed
          /\ cBroadcast'[Peer] # cBroadcast[Peer] =>
               /\ broadcast[Peer] = "closed"
               /\ HalfClosed'
               /\ UNCHANGED <<netVars, pc, cur, cRequests, cTimeout, peerVars,
                              watcherVars, chanVars, ioVars>>
          /\ (Closes(data, Peer) \/ Closes(responses, Peer)) =>
               /\ requests[Peer] = "closed"
               /\ timeout[Peer] = "closed"]_vars

\* after the half-close the core has taken a payload from a known peer and
\* stands at its send to the application
C18_Witness ==
    /\ HalfClosed
    /\ pc[Peer] = "data"
    /\ requests[Peer] = "open"

(***************************************************************************)
(* Deadlocks on the unbuffered channels, checked under SpecServer.         *)
(***************************************************************************)
\* the core of n is blocked sending on seen while its watcher is blocked
\* sending on the outward timeout channel
SeenAgainstTimeout(n) == pc[n] = "seen" /\ wpc[n] = "timeout"

\* the watcher of n is blocked sending a reset to a watchdog that is itself
\* blocked sending its timeout to the watcher
FeedAgainstFired(n) ==
    /\ wpc[n] = "feed"
    /\ wArg[n].ch \in DOMAIN dogs[n]
    /\ dogs[n][wArg[n].ch].st = "fired"

\* C19: no reachable state has the core blocked on seen with the watcher
\* blocked on the outward timeout channel, nor the watcher blocked on a reset
\* to a watchdog that is blocked on its timeout.
C19_NoDeadlock ==
    \A n \in Nodes : ~SeenAgainstTimeout(n) /\ ~FeedAgainstFired(n)

(***************************************************************************)
(* Sends and closes on closed channels, checked under SpecPeer.            *)
(***************************************************************************)
\* C20: once the inner timeout channel is closed no watchdog is left to send
\* on it; once seen is closed the core is not sending on it; once the outward
\* timeout channel is closed the watcher is not sending on it; once the
\* response and application inbound channels are closed the core has ended and
\* sends nothing more on them; and each step that closes a channel can be
\* taken only while that channel is open.
C20_NoSendOnClosed ==
    /\ [](\A n \in Nodes :
            /\ timeoutInner[n] = "closed" => DOMAIN dogs[n] = {} /\ wpc[n] = "done"
            /\ seen[n] = "closed" => pc[n] # "seen" /\ ~cRequests[n]
            /\ timeout[n] = "closed" => wpc[n] = "done"
            /\ responses[n] = "closed" => pc[n] = "done"
            /\ data[n] = "closed" => pc[n] = "done")
    /\ [](\A n \in Nodes :
            /\ ENABLED CoreRequestsClosed(n) => seen[n] = "open"
            /\ ENABLED WatcherExit(n) => timeout[n] = "open" /\ timeoutInner[n] = "open"
            /\ ENABLED CoreExit(n) => responses[n] = "open" /\ data[n] = "open"
            /\ ENABLED ReaderFail(n) => requests[n] = "open")
    /\ [][/\ (pc[Peer] # "reply" /\ pc'[Peer] = "reply") => responses[Peer] = "open"
          /\ Emitted(Peer) # EmptyBag => responses[Peer] = "open"
          /\ (pc[Peer] # "seen" /\ pc'[Peer] = "seen") => seen[Peer] = "open"
          /\ (pc[Peer] # "data" /\ pc'[Peer] = "data") => data[Peer] = "open"
          /\ (wpc[Peer] # "timeout" /\ wpc'[Peer] = "timeout") =>
               timeout[Peer] = "open" /\ timeoutInner[Peer] = "open"
          /\ (\E c \in DOMAIN dogs[Peer] :
                dogs[Peer][c].st = "timing" /\ c \in DOMAIN dogs'[Peer]
                /\ dogs'[Peer][c].st = "fired") => timeoutInner[Peer] = "open"]_vars

\* seen is closed and the watcher awaits a watchdog that has fired and stands
\* at its send on the inner timeout channel
C20_Witness ==
    /\ seen[Peer] = "closed"
    /\ ~wSeen[Peer]
    /\ wpc[Peer] = "select"
    /\ timeoutInner[Peer] = "open"
    /\ \E c \in DOMAIN dogs[Peer] : dogs[Peer][c].st = "fired"

====
